---- MODULE Spec2Model ----
(***************************************************************************)
(* Model of the signal-generation and back-testing engine of               *)
(* SHPE-Capital-Analysts-Demo: src/strategy.py (calculate_rsi,             *)
(* generate_signals), src/backtester.py (run_backtest) and                 *)
(* src/performance.py (calculate_max_drawdown).                            *)
(*                                                                         *)
(* Numbers.  Prices are small positive integers, so every sum the code     *)
(* forms is exact in float64 as well; quotients are kept as exact          *)
(* fractions [n, d] in lowest terms.  A pandas float cell is a record      *)
(* [k, n, d] whose kind k is "num", "nan" or "inf": NaN and the IEEE       *)
(* infinity of a division by zero are values of their own, because the     *)
(* code's comparisons treat them differently from numbers.                 *)
(*                                                                         *)
(* Indices.  Columns are TLA+ sequences (1-based); At(col, i) reads the    *)
(* cell the Python code addresses as iloc[i] (0-based), and every index    *)
(* named i, t or j below is the 0-based index of the code.                 *)
(***************************************************************************)
EXTENDS Integers, Sequences, FiniteSets, TLC

(***************************************************************************)
(* Exact fractions.                                                        *)
(***************************************************************************)
Abs(x) == IF x < 0 THEN -x ELSE x

RECURSIVE GCD(_, _)
GCD(a, b) == IF b = 0 THEN a ELSE GCD(b, a % b)

Rat(n, d) ==
    LET s == IF d < 0 THEN -1 ELSE 1
        g == GCD(Abs(n), Abs(d))
    IN  [n |-> (s * n) \div g, d |-> (s * d) \div g]

RInt(x)    == [n |-> x, d |-> 1]
RZero      == RInt(0)
RAdd(a, b) == Rat(a.n * b.d + b.n * a.d, a.d * b.d)
RSub(a, b) == Rat(a.n * b.d - b.n * a.d, a.d * b.d)
RMul(a, b) == Rat(a.n * b.n, a.d * b.d)
RDiv(a, b) == Rat(a.n * b.d, a.d * b.n)
RLt(a, b)  == a.n * b.d < b.n * a.d
RGt(a, b)  == RLt(b, a)
RLe(a, b)  == ~RLt(b, a)

(***************************************************************************)
(* pandas / numpy float cells.                                             *)
(***************************************************************************)
NaN     == [k |-> "nan", n |-> 0, d |-> 1]
Inf     == [k |-> "inf", n |-> 1, d |-> 1]
FR(r)   == [k |-> "num", n |-> r.n, d |-> r.d]
F(x)    == FR(RInt(x))
IsNum(a) == a.k = "num"
IsNaN(a) == a.k = "nan"
RatOf(a) == [n |-> a.n, d |-> a.d]

\* a == x, a != x, a > x, a < x for a float cell a and an integer x; every
\* comparison with NaN is False except !=, which is True
FEq(a, x) == IsNum(a) /\ a.n = x * a.d
FNe(a, x) == ~FEq(a, x)
FGt(a, x) == \/ a.k = "inf"
             \/ IsNum(a) /\ a.n > x * a.d
FLt(a, x) == IsNum(a) /\ a.n < x * a.d

\* a / b for non-negative a, b: x/0 is inf for x > 0 and NaN for x = 0
FDiv(a, b) ==
    IF IsNaN(a) \/ IsNaN(b) THEN NaN
    ELSE IF a.k = "inf" THEN (IF b.k = "inf" THEN NaN ELSE Inf)
    ELSE IF b.k = "inf" THEN F(0)
    ELSE IF b.n = 0 THEN (IF a.n = 0 THEN NaN ELSE Inf)
    ELSE FR(RDiv(RatOf(a), RatOf(b)))

FAdd(a, b) ==
    IF IsNaN(a) \/ IsNaN(b) THEN NaN
    ELSE IF a.k = "inf" \/ b.k = "inf" THEN Inf
    ELSE FR(RAdd(RatOf(a), RatOf(b)))

\* a - b for a finite a
FSub(a, b) ==
    IF IsNaN(a) \/ IsNaN(b) \/ b.k = "inf" THEN NaN
    ELSE FR(RSub(RatOf(a), RatOf(b)))

(***************************************************************************)
(* Columns.                                                                *)
(***************************************************************************)
At(col, i) == col[i + 1]

Idx(col) == 0 .. (Len(col) - 1)

RECURSIVE SumRange(_, _, _)
\* sum of the integer cells col.iloc[lo .. hi]
SumRange(col, lo, hi) ==
    IF hi < lo THEN 0 ELSE At(col, hi) + SumRange(col, lo, hi - 1)

\* variant: the difference is taken against the row two places back
Diff_TwoRowsBack(col) ==
    [p \in 1 .. Len(col) |-> IF p <= 2 THEN NaN ELSE F(col[p] - col[p - 2])]

\* Series.diff(): NaN at the first row
Diff(col) ==
    [p \in 1 .. Len(col) |-> IF p = 1 THEN NaN ELSE F(col[p] - col[p - 1])]

\* Series.rolling(window=w, min_periods=1).mean() at row i
RollingMeanMin1(col, w, i) ==
    LET lo == IF i - w + 1 < 0 THEN 0 ELSE i - w + 1
    IN  Rat(SumRange(col, lo, i), i - lo + 1)

\* Series.rolling(window=w).mean() at row i (min_periods = w): NaN until
\* the window holds w rows; col holds integers
RollingMeanFull(col, w, i) ==
    IF i + 1 < w THEN NaN ELSE FR(Rat(SumRange(col, i - w + 1, i), w))

(***************************************************************************)
(* strategy.py                                                             *)
(***************************************************************************)
RSI_PERIOD == 14

\* delta.where(delta > 0, 0): the NaN of the first row fails the test and
\* becomes 0
GainCell(delta_i) == IF FGt(delta_i, 0) THEN delta_i.n ELSE 0

\* -delta.where(delta < 0, 0)
LossCell(delta_i) == IF FLt(delta_i, 0) THEN -delta_i.n ELSE 0

\* variant: a zero average loss yields the undefined value whatever the gain
RsiOfMeans_ZeroLossNaN(gain, loss) ==
    IF IsNum(loss) /\ loss.n = 0 THEN NaN
    ELSE FSub(F(100), FDiv(F(100), FAdd(F(1), FDiv(gain, loss))))

\* rs = gain / loss and rsi = 100 - (100 / (1 + rs)), cell by cell
RsiOfMeans(gain, loss) ==
    LET rs == FDiv(gain, loss)
    IN  FSub(F(100), FDiv(F(100), FAdd(F(1), rs)))

calculate_rsi(prices, period) ==
    LET delta  == Diff(prices)
        gains  == [p \in 1 .. Len(prices) |-> GainCell(delta[p])]
        losses == [p \in 1 .. Len(prices) |-> LossCell(delta[p])]
    IN  [p \in 1 .. Len(prices) |->
            RsiOfMeans(RollingMeanFull(gains, period, p - 1),
                       RollingMeanFull(losses, period, p - 1))]

\* variant: every row is overwritten, with no warm-up rows left at 0
TrendSignalCell_NoWarmUp(i, long_window, short_ma_i, long_ma_i) ==
    IF RGt(short_ma_i, long_ma_i) THEN 1 ELSE 0

\* variant: the slice starts one row earlier, at index[long_window - 1:]
TrendSignalCell_FromFullWindow(i, long_window, short_ma_i, long_ma_i) ==
    IF i >= long_window - 1
    THEN (IF RGt(short_ma_i, long_ma_i) THEN 1 ELSE 0)
    ELSE 0

\* signals['signal'] = 0.0, then rows index[long_window:] are overwritten
\* with np.where(short_mavg > long_mavg, 1.0, 0.0)
TrendSignalCell(i, long_window, short_ma_i, long_ma_i) ==
    IF i >= long_window
    THEN (IF RGt(short_ma_i, long_ma_i) THEN 1 ELSE 0)
    ELSE 0

\* overbought_buys = (positions == 1.0) & (rsi > rsi_overbought);
\* positions[overbought_buys] = 0.0
FilterOverboughtBuy(pos_i, rsi_i, rsi_overbought) ==
    IF FEq(pos_i, 1) /\ FGt(rsi_i, rsi_overbought) THEN F(0) ELSE pos_i

\* variant: the exit mask tests rsi > rsi_oversold
FilterOversoldSell_Above(pos_i, rsi_i, rsi_oversold) ==
    IF FEq(pos_i, -1) /\ FGt(rsi_i, rsi_oversold) THEN F(0) ELSE pos_i

\* oversold_sells = (positions == -1.0) & (rsi < rsi_oversold);
\* positions[oversold_sells] = 0.0
FilterOversoldSell(pos_i, rsi_i, rsi_oversold) ==
    IF FEq(pos_i, -1) /\ FLt(rsi_i, rsi_oversold) THEN F(0) ELSE pos_i

\* the value generate_signals returns when it does not return None: the
\* columns it adds to the copy of data
SignalFrame(adj_close, sw, lw, rsi_on, oversold, overbought) ==
    LET N          == Len(adj_close)
        short_mavg == [p \in 1 .. N |-> RollingMeanMin1(adj_close, sw, p - 1)]
        long_mavg  == [p \in 1 .. N |-> RollingMeanMin1(adj_close, lw, p - 1)]
        rsi        == calculate_rsi(adj_close, RSI_PERIOD)
        signal     == [p \in 1 .. N |->
                          TrendSignalCell(p - 1, lw, short_mavg[p], long_mavg[p])]
        raw        == Diff(signal)
        buys_done  == [p \in 1 .. N |->
                          FilterOverboughtBuy(raw[p], rsi[p], overbought)]
        filtered   == [p \in 1 .. N |->
                          FilterOversoldSell(buys_done[p], rsi[p], oversold)]
    IN  [short_mavg |-> short_mavg,
         long_mavg  |-> long_mavg,
         rsi        |-> rsi,
         signal     |-> signal,
         positions  |-> IF rsi_on THEN filtered ELSE raw]

\* variant: len(data) <= long_window
InsufficientData_AtMost(adj_close, lw) == Len(adj_close) <= lw

\* if len(data) < long_window: return None
InsufficientData(adj_close, lw) == Len(adj_close) < lw

(***************************************************************************)
(* performance.py                                                          *)
(***************************************************************************)
RMax(a, b) == IF RLt(a, b) THEN b ELSE a
RMin(a, b) == IF RLt(b, a) THEN b ELSE a

RECURSIVE CumMax(_, _)
\* equity_curve.cummax() at row i
CumMax(curve, i) ==
    IF i = 0 THEN At(curve, 0) ELSE RMax(At(curve, i), CumMax(curve, i - 1))

\* variant: the drawdown is measured from the first value of the curve
Drawdown_FromStart(curve, i) ==
    RDiv(RSub(At(curve, i), At(curve, 0)), At(curve, 0))

\* drawdown = (equity_curve - running_max) / running_max at row i
Drawdown(curve, i) ==
    RDiv(RSub(At(curve, i), CumMax(curve, i)), CumMax(curve, i))

RECURSIVE MinDrawdown(_, _)
MinDrawdown(curve, i) ==
    IF i = 0 THEN Drawdown(curve, 0)
    ELSE RMin(Drawdown(curve, i), MinDrawdown(curve, i - 1))

\* max_drawdown = drawdown.min(); return max_drawdown * 100
calculate_max_drawdown(curve) ==
    RMul(MinDrawdown(curve, Len(curve) - 1), RInt(100))

(***************************************************************************)
(* backtester.py                                                           *)
(***************************************************************************)
\* stop_loss_pct=None, or a fraction
NoStopLoss     == [none |-> TRUE, pct |-> RZero]
StopLoss(n, d) == [none |-> FALSE, pct |-> Rat(n, d)]

\* variant: a price equal to the threshold triggers the exit as well
StopLossHit_AtOrBelow(price, entry, stop) ==
    RLe(RInt(price), RMul(entry, RSub(RInt(1), stop.pct)))

\* price < last_buy_price * (1 - stop_loss_pct)
StopLossHit(price, entry, stop) ==
    RLt(RInt(price), RMul(entry, RSub(RInt(1), stop.pct)))

\* variant: a +1 on a ledger that already holds units moves the entry price
\* to the bar's price
LedgerStep_RepeatBuyMovesEntry(l, price, signal, stop) ==
    IF FEq(signal, 1) /\ RGt(l.cash, RZero)
    THEN [cash |-> RZero,
          positions |-> RDiv(l.cash, RInt(price)),
          last_buy_price |-> RInt(price),
          event |-> "buy"]
    ELSE IF FEq(signal, -1) /\ RGt(l.positions, RZero)
    THEN [cash |-> RMul(l.positions, RInt(price)),
          positions |-> RZero,
          last_buy_price |-> RZero,
          event |-> "sell"]
    ELSE IF ~stop.none /\ RGt(l.positions, RZero)
            /\ StopLossHit(price, l.last_buy_price, stop)
    THEN [cash |-> RMul(l.positions, RInt(price)),
          positions |-> RZero,
          last_buy_price |-> RZero,
          event |-> "stop"]
    ELSE [cash |-> l.cash,
          positions |-> l.positions,
          last_buy_price |-> IF FEq(signal, 1) /\ RGt(l.positions, RZero)
                             THEN RInt(price) ELSE l.last_buy_price,
          event |-> "none"]

\* variant: the buy branch leaves cash as it was
LedgerStep_BuyKeepsCash(l, price, signal, stop) ==
    IF FEq(signal, 1) /\ RGt(l.cash, RZero)
    THEN [cash |-> l.cash,
          positions |-> RDiv(l.cash, RInt(price)),
          last_buy_price |-> RInt(price),
          event |-> "buy"]
    ELSE IF FEq(signal, -1) /\ RGt(l.positions, RZero)
    THEN [cash |-> RMul(l.positions, RInt(price)),
          positions |-> RZero,
          last_buy_price |-> RZero,
          event |-> "sell"]
    ELSE IF ~stop.none /\ RGt(l.positions, RZero)
            /\ StopLossHit(price, l.last_buy_price, stop)
    THEN [cash |-> RMul(l.positions, RInt(price)),
          positions |-> RZero,
          last_buy_price |-> RZero,
          event |-> "stop"]
    ELSE [cash |-> l.cash,
          positions |-> l.positions,
          last_buy_price |-> l.last_buy_price,
          event |-> "none"]

\* variant: the stop-loss test comes first in the chain
LedgerStep_StopFirst(l, price, signal, stop) ==
    IF ~stop.none /\ RGt(l.positions, RZero)
       /\ StopLossHit(price, l.last_buy_price, stop)
    THEN [cash |-> RMul(l.positions, RInt(price)),
          positions |-> RZero,
          last_buy_price |-> RZero,
          event |-> "stop"]
    ELSE IF FEq(signal, 1) /\ RGt(l.cash, RZero)
    THEN [cash |-> RZero,
          positions |-> RDiv(l.cash, RInt(price)),
          last_buy_price |-> RInt(price),
          event |-> "buy"]
    ELSE IF FEq(signal, -1) /\ RGt(l.positions, RZero)
    THEN [cash |-> RMul(l.positions, RInt(price)),
          positions |-> RZero,
          last_buy_price |-> RZero,
          event |-> "sell"]
    ELSE [cash |-> l.cash,
          positions |-> l.positions,
          last_buy_price |-> l.last_buy_price,
          event |-> "none"]

\* variant: a stop-loss exit is filled at the threshold price instead of
\* the bar's price
LedgerStep_StopFilledAtThreshold(l, price, signal, stop) ==
    IF FEq(signal, 1) /\ RGt(l.cash, RZero)
    THEN [cash |-> RZero,
          positions |-> RDiv(l.cash, RInt(price)),
          last_buy_price |-> RInt(price),
          event |-> "buy"]
    ELSE IF FEq(signal, -1) /\ RGt(l.positions, RZero)
    THEN [cash |-> RMul(l.positions, RInt(price)),
          positions |-> RZero,
          last_buy_price |-> RZero,
          event |-> "sell"]
    ELSE IF ~stop.none /\ RGt(l.positions, RZero)
            /\ StopLossHit(price, l.last_buy_price, stop)
    THEN [cash |-> RMul(l.positions,
                        RMul(l.last_buy_price, RSub(RInt(1), stop.pct))),
          positions |-> RZero,
          last_buy_price |-> RZero,
          event |-> "stop"]
    ELSE [cash |-> l.cash,
          positions |-> l.positions,
          last_buy_price |-> l.last_buy_price,
          event |-> "none"]

\* One pass of the loop body over a bar: the if / elif / elif chain.  l is
\* the ledger before the bar.  The result is the ledger after the bar and
\* the branch that assigned it.
LedgerStep(l, price, signal, stop) ==
    IF FEq(signal, 1) /\ RGt(l.cash, RZero)
    THEN [cash |-> RZero,
          positions |-> RDiv(l.cash, RInt(price)),
          last_buy_price |-> RInt(price),
          event |-> "buy"]
    ELSE IF FEq(signal, -1) /\ RGt(l.positions, RZero)
    THEN [cash |-> RMul(l.positions, RInt(price)),
          positions |-> RZero,
          last_buy_price |-> RZero,
          event |-> "sell"]
    ELSE IF ~stop.none /\ RGt(l.positions, RZero)
            /\ StopLossHit(price, l.last_buy_price, stop)
    THEN [cash |-> RMul(l.positions, RInt(price)),
          positions |-> RZero,
          last_buy_price |-> RZero,
          event |-> "stop"]
    ELSE [cash |-> l.cash,
          positions |-> l.positions,
          last_buy_price |-> l.last_buy_price,
          event |-> "none"]

\* variant: total adds the units held instead of their value
PortfolioRow_TotalAddsUnits(l, price) ==
    [holdings |-> RMul(l.positions, RInt(price)),
     cash     |-> l.cash,
     total    |-> RAdd(l.cash, l.positions)]

\* holdings_value = positions * price; total = cash + holdings_value; the
\* row written to portfolio.loc[idx]
PortfolioRow(l, price) ==
    LET holdings_value == RMul(l.positions, RInt(price))
    IN  [holdings |-> holdings_value,
         cash     |-> l.cash,
         total    |-> RAdd(l.cash, holdings_value)]

\* trades = signals["positions"][signals["positions"] != 0], as the list of
\* the 0-based rows that pass the test
TradeRows(pos) ==
    SelectSeq([p \in 1 .. Len(pos) |-> p - 1], LAMBDA i : FNe(At(pos, i), 0))

\* variant: a sale at the purchase price counts as a win
IsWin_AtLeast(pos, adj_close, trades, j) ==
    /\ FEq(At(pos, At(trades, j)), 1)
    /\ j + 1 < Len(trades)
    /\ FEq(At(pos, At(trades, j + 1)), -1)
    /\ At(adj_close, At(trades, j + 1)) >= At(adj_close, At(trades, j))

\* the test of the pairing loop at j, and the comparison of the two prices
IsWin(pos, adj_close, trades, j) ==
    /\ FEq(At(pos, At(trades, j)), 1)
    /\ j + 1 < Len(trades)
    /\ FEq(At(pos, At(trades, j + 1)), -1)
    /\ At(adj_close, At(trades, j + 1)) > At(adj_close, At(trades, j))

CountWins(pos, adj_close, trades) ==
    Cardinality({j \in Idx(trades) : IsWin(pos, adj_close, trades, j)})

\* total_trades = len(trades) // 2
TotalTrades(trades) == Len(trades) \div 2

\* variant: a run without trades has a win rate of 100
WinRate_NoTradesIsFull(wins, total_trades) ==
    IF total_trades > 0 THEN RMul(Rat(wins, total_trades), RInt(100))
    ELSE RInt(100)

\* win_rate = (wins / total_trades) * 100 if total_trades > 0 else 0
WinRate(wins, total_trades) ==
    IF total_trades > 0 THEN RMul(Rat(wins, total_trades), RInt(100)) ELSE RZero

\* total_return = (portfolio["total"].iloc[-1] / initial_capital - 1) * 100
TotalReturn(last_total, capital) ==
    RMul(RSub(RDiv(last_total, RInt(capital)), RInt(1)), RInt(100))

(***************************************************************************)
(* web_gui.py: the portfolio request.  Dates are day numbers; the strings  *)
(* '%Y-%m-%d' the code keeps sort in the same order.                       *)
(***************************************************************************)
NOTIONAL_CAPITAL == 10000
PARTIAL_GAP_DAYS == 5

\* max(s['sharpe'], 0.01): the floor of the smart weights
SharpeFloor == Rat(1, 100)

\* clean_for_json on a float: NaN and +-inf become 0.0
clean_for_json(val) == IF IsNum(val) THEN val ELSE F(0)

\* what fetch_price_history gives for one ticker: DataFetchError, or a
\* frame (possibly empty) with its index and its Adj Close column.  sharpe
\* stands for what calculate_sharpe_ratio returns on the returns of this
\* frame's backtest; it is drawn, never computed (it needs a square root)
FetchError == [kind |-> "error", index |-> <<>>, adj_close |-> <<>>, sharpe |-> NaN]

PriceFrame(index, adj_close, sharpe) ==
    [kind |-> "frame", index |-> index, adj_close |-> adj_close, sharpe |-> sharpe]

NoError == "none"

\* validate_stock: None, or the 'error' field of the dict it returns
validate_stock(fetched, start, end) ==
    IF fetched.kind = "error" THEN "fetch_error"
    ELSE IF fetched.index = <<>> THEN "not_found"
    ELSE LET data_start == fetched.index[1]
             data_end   == fetched.index[Len(fetched.index)]
             start_diff == data_start - start
             end_diff   == end - data_end
         IN  IF start_diff > PARTIAL_GAP_DAYS \/ end_diff > PARTIAL_GAP_DAYS
             THEN "partial_data"
             ELSE NoError

\* critical_errors: the entries the user cannot continue past
IsCritical(err) == err.error \in {"not_found", "fetch_error", "unknown_error"}

\* run_backtest's loop, folded: the ledger after the first n rows
RECURSIVE LedgerAfter(_, _, _, _, _)
LedgerAfter(adj_close, pos, start_cash, stop, n) ==
    IF n = 0
    THEN [cash |-> RInt(start_cash), positions |-> RZero,
          last_buy_price |-> RZero, event |-> "none"]
    ELSE LedgerStep(LedgerAfter(adj_close, pos, start_cash, stop, n - 1),
                    At(adj_close, n - 1), At(pos, n - 1), stop)

\* portfolio['total'] of run_backtest(ticker, data, signals, start_cash)
PortfolioTotals(adj_close, pos, start_cash, stop) ==
    [p \in 1 .. Len(adj_close) |->
        PortfolioRow(LedgerAfter(adj_close, pos, start_cash, stop, p),
                     adj_close[p]).total]

NoStock ==
    [ok |-> FALSE, ticker |-> "", dates |-> <<>>, portfolio_vals |-> <<>>,
     sharpe |-> F(0), final_value |-> RZero]

\* variant: a history too short for signals is kept with a flat curve
analyze_single_stock_KeepsShortHistory(ticker, fetched, sw, lw, rsi_on) ==
    IF fetched.kind = "error" THEN NoStock
    ELSE IF fetched.index = <<>> THEN NoStock
    ELSE LET frame  == SignalFrame(fetched.adj_close, sw, lw, rsi_on, 35, 70)
             totals == IF InsufficientData(fetched.adj_close, lw)
                       THEN [p \in 1 .. Len(fetched.index) |->
                                RInt(NOTIONAL_CAPITAL)]
                       ELSE PortfolioTotals(fetched.adj_close, frame.positions,
                                            NOTIONAL_CAPITAL, NoStopLoss)
         IN  [ok |-> TRUE,
              ticker |-> ticker,
              dates |-> fetched.index,
              portfolio_vals |-> totals,
              sharpe |-> clean_for_json(fetched.sharpe),
              final_value |-> totals[Len(totals)]]

\* analyze_single_stock: None (NoStock) when the fetch raises, the frame is
\* empty or generate_signals returns None; the per-ticker dict otherwise
analyze_single_stock(ticker, fetched, sw, lw, rsi_on) ==
    IF fetched.kind = "error" THEN NoStock
    ELSE IF fetched.index = <<>> THEN NoStock
    ELSE IF InsufficientData(fetched.adj_close, lw) THEN NoStock
    ELSE LET frame  == SignalFrame(fetched.adj_close, sw, lw, rsi_on, 35, 70)
             totals == PortfolioTotals(fetched.adj_close, frame.positions,
                                       NOTIONAL_CAPITAL, NoStopLoss)
         IN  [ok |-> TRUE,
              ticker |-> ticker,
              dates |-> fetched.index,
              portfolio_vals |-> totals,
              sharpe |-> clean_for_json(fetched.sharpe),
              final_value |-> totals[Len(totals)]]

\* sum of a sequence of fractions
RECURSIVE RSum(_)
RSum(s) == IF s = <<>> THEN RZero ELSE RAdd(Head(s), RSum(Tail(s)))

\* variant: the floor is 0.1
SmartWeights_FloorTenth(stocks) ==
    LET sharpes == [p \in 1 .. Len(stocks) |->
                       RMax(RatOf(stocks[p].sharpe), Rat(1, 10))]
    IN  [p \in 1 .. Len(stocks) |-> RDiv(sharpes[p], RSum(sharpes))]

\* variant: the floor is applied to the normalised weights as well
SmartWeights_FloorAfterNormalising(stocks) ==
    LET sharpes == [p \in 1 .. Len(stocks) |->
                       RMax(RatOf(stocks[p].sharpe), SharpeFloor)]
    IN  [p \in 1 .. Len(stocks) |->
            RMax(RDiv(sharpes[p], RSum(sharpes)), SharpeFloor)]

\* sharpes = [max(s['sharpe'], 0.01)]; weights = sharpes / sharpes.sum()
SmartWeights(stocks) ==
    LET sharpes == [p \in 1 .. Len(stocks) |->
                       RMax(RatOf(stocks[p].sharpe), SharpeFloor)]
    IN  [p \in 1 .. Len(stocks) |-> RDiv(sharpes[p], RSum(sharpes))]

\* weights = np.ones(len(stock_results)) / len(stock_results)
EqualWeights(stocks) == [p \in 1 .. Len(stocks) |-> Rat(1, Len(stocks))]

Weights(stocks, smart) ==
    IF smart THEN SmartWeights(stocks) ELSE EqualWeights(stocks)

\* sorted(list(all_dates)) for a set of day numbers
RECURSIVE SortedDates(_)
SortedDates(S) ==
    IF S = {} THEN <<>>
    ELSE LET first == CHOOSE d \in S : \A e \in S : d <= e
         IN  <<first>> \o SortedDates(S \ {first})

\* all_dates.update(s['dates']) over the stocks; common_dates
CommonDates(stocks) ==
    SortedDates(UNION {{stocks[p].dates[q] : q \in 1 .. Len(stocks[p].dates)} :
                          p \in 1 .. Len(stocks)})

\* scaled_vals = [v * scale for v in portfolio_vals], scale = allocation / 10000
ScaledVals(stock, allocation) ==
    LET scale == RDiv(allocation, RInt(NOTIONAL_CAPITAL))
    IN  [q \in 1 .. Len(stock.portfolio_vals) |->
            RMul(stock.portfolio_vals[q], scale)]

\* date_to_val = dict(zip(dates, scaled_vals)); date_to_val[d] when d is a
\* key (the last entry of a repeated date wins), nothing added otherwise
DateToVal(stock, scaled_vals, d) ==
    LET hits == {q \in 1 .. Len(stock.dates) : stock.dates[q] = d}
    IN  IF hits = {} THEN RZero
        ELSE scaled_vals[CHOOSE q \in hits : \A r \in hits : r <= q]

\* the dict appended to stocks_output
StockOutput(stock, weight, allocation) ==
    LET scaled_vals == ScaledVals(stock, allocation)
        last_val    == scaled_vals[Len(scaled_vals)]
    IN  [ticker |-> stock.ticker,
         allocation |-> allocation,
         allocation_pct |-> RMul(weight, RInt(100)),
         profit |-> IF scaled_vals = <<>> THEN RZero
                    ELSE RSub(last_val, allocation),
         return_pct |-> IF RGt(allocation, RZero) /\ scaled_vals # <<>>
                        THEN RMul(RSub(RDiv(last_val, allocation), RInt(1)),
                                  RInt(100))
                        ELSE RZero,
         sharpe |-> stock.sharpe,
         dates |-> stock.dates,
         values |-> scaled_vals]

\* list.sort(key=profit, reverse=True): stable, larger profit first
RECURSIVE SortByProfit(_)
\* variant: smaller profit first
InsertByProfit_Ascending(sorted, x) ==
    LET after == {p \in 1 .. Len(sorted) : RGt(sorted[p].profit, x.profit)}
        at    == IF after = {} THEN Len(sorted) + 1
                 ELSE CHOOSE p \in after : \A r \in after : p <= r
    IN  SubSeq(sorted, 1, at - 1) \o <<x>> \o SubSeq(sorted, at, Len(sorted))

InsertByProfit(sorted, x) ==
    LET after == {p \in 1 .. Len(sorted) : RLt(sorted[p].profit, x.profit)}
        at    == IF after = {} THEN Len(sorted) + 1
                 ELSE CHOOSE p \in after : \A r \in after : p <= r
    IN  SubSeq(sorted, 1, at - 1) \o <<x>> \o SubSeq(sorted, at, Len(sorted))

SortByProfit(outs) ==
    IF outs = <<>> THEN <<>>
    ELSE InsertByProfit(SortByProfit(SubSeq(outs, 1, Len(outs) - 1)),
                        outs[Len(outs)])

\* what the handler returns, with its locals weights and allocations kept
\* beside the JSON fields
NoResponse ==
    [status |-> 0, kind |-> "none", error |-> "",
     errors |-> <<>>, can_continue |-> FALSE,
     stocks |-> <<>>, weights |-> <<>>, allocations |-> <<>>,
     dates |-> <<>>, portfolio_values |-> <<>>,
     total_profit |-> RZero, total_return_pct |-> RZero,
     total_capital |-> RZero]

\* jsonify({'error': msg}), 400
ErrorResponse(msg) == [NoResponse EXCEPT !.status = 400, !.kind = "error", !.error = msg]

\* the validation_errors response: every error, and whether only warnings
ValidationResponse(errs) ==
    [NoResponse EXCEPT !.status = 200, !.kind = "validation", !.errors = errs,
        !.can_continue = \A p \in 1 .. Len(errs) : ~IsCritical(errs[p])]

\* total_profit += profit over the stocks
TotalProfit(outs, curve, total) ==
    RSum([p \in 1 .. Len(outs) |-> outs[p].profit])

\* variant: a ticker without a bar on a date carries its last value forward
CurveValue_CarryForward(stock, scaled_vals, d) ==
    LET upto == {q \in 1 .. Len(stock.dates) : stock.dates[q] <= d}
    IN  IF upto = {} THEN RZero
        ELSE scaled_vals[CHOOSE q \in upto : \A r \in upto : r <= q]

\* portfolio_values[j] += date_to_val[d] when d is in date_to_val; the
\* other branch is "pass"
CurveValue(stock, scaled_vals, d) == DateToVal(stock, scaled_vals, d)

\* the weights, the allocations, the summed curve and the response built
\* from stock_results
PortfolioResponse(stocks, total, smart) ==
    LET weights      == Weights(stocks, smart)
        allocations  == [p \in 1 .. Len(stocks) |-> RMul(weights[p], RInt(total))]
        common_dates == CommonDates(stocks)
        outs         == [p \in 1 .. Len(stocks) |->
                            StockOutput(stocks[p], weights[p], allocations[p])]
        curve        == [j \in 1 .. Len(common_dates) |->
                            RSum([p \in 1 .. Len(stocks) |->
                                     CurveValue(stocks[p], outs[p].values,
                                                common_dates[j])])]
        total_profit == TotalProfit(outs, curve, total)
    IN  [NoResponse EXCEPT
            !.status = 200, !.kind = "result",
            !.stocks = SortByProfit(outs),
            !.weights = weights,
            !.allocations = allocations,
            !.dates = common_dates,
            !.portfolio_values = curve,
            !.total_profit = total_profit,
            !.total_return_pct = RMul(RDiv(total_profit, RInt(total)), RInt(100)),
            !.total_capital = RInt(total)]

(***************************************************************************)
(* Inputs.                                                                 *)
(***************************************************************************)
MaxHead  == 2
MaxTail  == 3
FlatRun  == 15
MaxBars  == 4
MaxTickers == 2

Prices == {1, 2}

SeqsUpTo(S, n) == UNION {[1 .. k -> S] : k \in 0 .. n}

Flat(level, n) == [p \in 1 .. n |-> level]

\* Adj Close columns for the signal generator: a free head, then either
\* nothing or a run of FlatRun equal prices (long enough to fill the RSI
\* window and the longest long_window), then a free tail
GeneratorSeries ==
    {h \o Flat(c, n) \o t :
        h \in SeqsUpTo(Prices, MaxHead), c \in Prices,
        n \in {0, FlatRun}, t \in SeqsUpTo(Prices, MaxTail)}

ShortWindows  == {1, 3}
LongWindows   == {2, FlatRun + 1}
\* use_rsi with rsi_oversold and rsi_overbought; the thresholds are not read
\* when use_rsi is off
RsiSettings   == {<<FALSE, 35, 70>>, <<TRUE, 35, 70>>, <<TRUE, 50, 100>>}
Capitals      == {1, 10000}
StopLosses    == {NoStopLoss, StopLoss(1, 4), StopLoss(1, 2)}

\* position_change columns handed straight to run_backtest: -1, 0, +1 in
\* every row, or the NaN that diff() leaves in the first row
PositionCell(x) == F(x)

GivenPositions(n) ==
    {[p \in 1 .. n |-> IF p = 1 THEN first ELSE PositionCell(rest[p])] :
        first \in {NaN, PositionCell(-1), PositionCell(0), PositionCell(1)},
        rest \in [2 .. n -> {-1, 0, 1}]}

\* the portfolio request: ticker lists (a ticker may be named twice), total
\* capital, and the date range as day numbers
TickerNames   == {"A", "B"}
TickerLists   == SeqsUpTo(TickerNames, MaxTickers)
TotalCapitals == {-100, 0, 2000}
DateRanges    == {<<1, 9>>, <<9, 9>>, <<9, 1>>}

\* values calculate_sharpe_ratio may return: undefined, negative, positive
SharpeValues  == {NaN, F(-1), FR(Rat(1, 2)), F(2)}

\* what the price service may hold for a ticker: nothing it can serve, an
\* empty frame, one bar only, or one of three short histories with
\* different date ranges and outcomes under the (1, 2) crossover
MarketOutcomes ==
    {FetchError, PriceFrame(<<>>, <<>>, NaN), PriceFrame(<<4>>, <<1>>, NaN)}
    \cup {PriceFrame(<<1, 2, 3, 4>>, <<1, 1, 2, 3>>, sh) : sh \in SharpeValues}
    \cup {PriceFrame(<<2, 3, 4, 5>>, <<1, 1, 2, 1>>, sh) : sh \in SharpeValues}
    \cup {PriceFrame(<<1, 2, 3>>, <<1, 1, 2>>, sh) : sh \in SharpeValues}

EmptyFrame ==
    [short_mavg |-> <<>>, long_mavg |-> <<>>, rsi |-> <<>>,
     signal |-> <<>>, positions |-> <<>>]

NoResults ==
    [total_return_pct |-> RZero, max_drawdown_pct |-> RZero,
     win_rate_pct |-> RZero, wins |-> 0, total_trades |-> 0, trades |-> <<>>]

(***************************************************************************)
(* State.                                                                  *)
(***************************************************************************)
VARIABLES
    data,             \* the Adj Close column of the price DataFrame
    short_window, long_window, use_rsi, rsi_oversold, rsi_overbought,
    initial_capital, stop_loss_pct,
    signals,          \* the columns generate_signals adds (EmptyFrame: none yet)
    pc,               \* where the run is
    bar,              \* run_backtest: the loop's i, the next row to process
    cash, positions, last_buy_price,
    portfolio,        \* the rows of the portfolio frame written so far
    events,           \* per processed row, the branch of the chain that ran
    results,          \* what run_backtest returns, and its pairing locals
    tickers, capital, start_date, end_date,
    smart_allocation, skip_validation,   \* the fields of the portfolio request
    market,           \* per ticker, what fetch_price_history gives
    ticker_i,         \* position in tickers of the validation / analysis loop
    validation_errors,
    stock_results,
    fetch_log,        \* the calls of fetch_price_history made so far
    response          \* what run_portfolio_analysis returns (NoResponse: not yet)

inputs == <<data, short_window, long_window, use_rsi, rsi_oversold,
            rsi_overbought, initial_capital, stop_loss_pct>>
ledger == <<bar, cash, positions, last_buy_price, portfolio, events>>
request == <<tickers, capital, start_date, end_date, smart_allocation,
             skip_validation, market>>
handler == <<ticker_i, validation_errors, stock_results, fetch_log, response>>
web    == <<request, handler>>
vars   == <<inputs, signals, pc, ledger, results, web>>

\* no portfolio request is being served
NoRequest ==
    /\ tickers = <<>>
    /\ capital = 0
    /\ start_date = 0
    /\ end_date = 0
    /\ smart_allocation = TRUE
    /\ skip_validation = FALSE
    /\ market = [t \in TickerNames |-> FetchError]

HandlerInit ==
    /\ ticker_i = 0
    /\ validation_errors = <<>>
    /\ stock_results = <<>>
    /\ fetch_log = <<>>
    /\ response = NoResponse

\* cash = float(initial_capital); positions = 0.0; last_buy_price = 0.0
LedgerInit ==
    /\ bar = 0
    /\ cash = RInt(initial_capital)
    /\ positions = RZero
    /\ last_buy_price = RZero
    /\ portfolio = <<>>
    /\ events = <<>>

\* generate_signals(data, short_window, long_window, use_rsi, rsi_oversold,
\* rsi_overbought) is about to be called; run_backtest follows with the
\* frame it returns
Init ==
    /\ data \in GeneratorSeries
    /\ short_window \in ShortWindows
    /\ long_window \in LongWindows
    /\ \E rs \in RsiSettings :
          use_rsi = rs[1] /\ rsi_oversold = rs[2] /\ rsi_overbought = rs[3]
    /\ initial_capital = 10000
    /\ stop_loss_pct \in {NoStopLoss, StopLoss(1, 4)}
    /\ signals = EmptyFrame
    /\ pc = "generate_signals"
    /\ LedgerInit
    /\ results = NoResults
    /\ NoRequest
    /\ HandlerInit

\* run_backtest(ticker, data, signals, initial_capital, stop_loss_pct) is
\* about to be called on a frame whose positions column the caller supplies
InitLedger ==
    /\ \E n \in 1 .. MaxBars :
          /\ data \in [1 .. n -> Prices]
          /\ \E pos \in GivenPositions(n) :
                signals = [EmptyFrame EXCEPT !.positions = pos]
    /\ short_window = 1
    /\ long_window = 1
    /\ use_rsi = FALSE
    /\ rsi_oversold = 35
    /\ rsi_overbought = 70
    /\ initial_capital \in Capitals
    /\ stop_loss_pct \in StopLosses
    /\ pc = "run_backtest"
    /\ LedgerInit
    /\ results = NoResults
    /\ NoRequest
    /\ HandlerInit

\* POST /api/portfolio has arrived with its JSON body; the windows are the
\* request's short_window and long_window, use_rsi its default
InitPortfolio ==
    /\ tickers \in TickerLists
    /\ capital \in TotalCapitals
    /\ \E range \in DateRanges : start_date = range[1] /\ end_date = range[2]
    /\ smart_allocation \in BOOLEAN
    /\ skip_validation \in BOOLEAN
    /\ market \in [TickerNames -> MarketOutcomes]
    /\ short_window = 1
    /\ long_window = 2
    /\ use_rsi = TRUE
    /\ rsi_oversold = 35
    /\ rsi_overbought = 70
    /\ data = <<>>
    /\ initial_capital = NOTIONAL_CAPITAL
    /\ stop_loss_pct = NoStopLoss
    /\ signals = EmptyFrame
    /\ pc = "request"
    /\ LedgerInit
    /\ results = NoResults
    /\ HandlerInit

(***************************************************************************)
(* Operations.                                                             *)
(***************************************************************************)
\* generate_signals: returns None on too short a series, the annotated
\* copy otherwise
GenerateSignalsNone ==
    /\ pc = "generate_signals"
    /\ InsufficientData(data, long_window)
    /\ pc' = "insufficient_data"
    /\ UNCHANGED <<inputs, signals, ledger, results, web>>

GenerateSignals ==
    /\ pc = "generate_signals"
    /\ ~InsufficientData(data, long_window)
    /\ signals' = SignalFrame(data, short_window, long_window, use_rsi,
                              rsi_oversold, rsi_overbought)
    /\ pc' = "run_backtest"
    /\ UNCHANGED <<inputs, ledger, results, web>>

\* variant: a signal that has been executed is cleared in the frame
BacktestBar_ConsumesSignal ==
    /\ pc = "run_backtest"
    /\ bar < Len(data)
    /\ LET price == At(data, bar)
           step  == LedgerStep([cash |-> cash, positions |-> positions,
                                last_buy_price |-> last_buy_price],
                               price, At(signals.positions, bar), stop_loss_pct)
       IN  /\ cash' = step.cash
           /\ positions' = step.positions
           /\ last_buy_price' = step.last_buy_price
           /\ events' = Append(events, step.event)
           /\ portfolio' = Append(portfolio, PortfolioRow(step, price))
           /\ signals' = IF step.event \in {"buy", "sell"}
                         THEN [signals EXCEPT !.positions[bar + 1] = F(0)]
                         ELSE signals
    /\ bar' = bar + 1
    /\ UNCHANGED <<inputs, pc, results, web>>

\* variant: the bar acts on the signal of the bar that follows it
BacktestBar_PeeksNextSignal ==
    /\ pc = "run_backtest"
    /\ bar < Len(data)
    /\ LET price == At(data, bar)
           ahead == IF bar + 1 < Len(data) THEN bar + 1 ELSE bar
           step  == LedgerStep([cash |-> cash, positions |-> positions,
                                last_buy_price |-> last_buy_price],
                               price, At(signals.positions, ahead), stop_loss_pct)
       IN  /\ cash' = step.cash
           /\ positions' = step.positions
           /\ last_buy_price' = step.last_buy_price
           /\ events' = Append(events, step.event)
           /\ portfolio' = Append(portfolio, PortfolioRow(step, price))
    /\ bar' = bar + 1
    /\ UNCHANGED <<inputs, signals, pc, results, web>>

\* run_backtest: one iteration of "for i, idx in enumerate(signals.index)"
BacktestBar ==
    /\ pc = "run_backtest"
    /\ bar < Len(data)
    /\ LET price == At(data, bar)
           step  == LedgerStep([cash |-> cash, positions |-> positions,
                                last_buy_price |-> last_buy_price],
                               price, At(signals.positions, bar), stop_loss_pct)
       IN  /\ cash' = step.cash
           /\ positions' = step.positions
           /\ last_buy_price' = step.last_buy_price
           /\ events' = Append(events, step.event)
           /\ portfolio' = Append(portfolio, PortfolioRow(step, price))
    /\ bar' = bar + 1
    /\ UNCHANGED <<inputs, signals, pc, results, web>>

\* run_backtest after the loop: the metrics and the trade pairing
BacktestFinish ==
    /\ pc = "run_backtest"
    /\ bar = Len(data)
    /\ LET totals == [p \in 1 .. Len(portfolio) |-> portfolio[p].total]
           trades == TradeRows(signals.positions)
           wins   == CountWins(signals.positions, data, trades)
       IN  results' =
             [total_return_pct |->
                  TotalReturn(totals[Len(totals)], initial_capital),
              max_drawdown_pct |-> calculate_max_drawdown(totals),
              win_rate_pct     |-> WinRate(wins, TotalTrades(trades)),
              wins             |-> wins,
              total_trades     |-> TotalTrades(trades),
              trades           |-> trades]
    /\ pc' = "done"
    /\ UNCHANGED <<inputs, signals, ledger, web>>

\* variant: the date range is not checked
RequestError_NoDateCheck ==
    IF tickers = <<>> THEN "No tickers provided"
    ELSE IF capital <= 0 THEN "Capital must be positive"
    ELSE NoError

\* run_portfolio_analysis, the three checks on the request: the first that
\* fails returns its error with status 400
RequestError ==
    IF tickers = <<>> THEN "No tickers provided"
    ELSE IF capital <= 0 THEN "Capital must be positive"
    ELSE IF end_date <= start_date THEN "End date must be after start date"
    ELSE NoError

engine == <<inputs, signals, ledger, results>>

RejectRequest ==
    /\ pc = "request"
    /\ RequestError # NoError
    /\ response' = ErrorResponse(RequestError)
    /\ pc' = "responded"
    /\ UNCHANGED <<engine, request, ticker_i, validation_errors,
                   stock_results, fetch_log>>

\* the checks pass; skip_validation decides whether the validation loop runs
AcceptRequest ==
    /\ pc = "request"
    /\ RequestError = NoError
    /\ pc' = IF skip_validation THEN "analyze" ELSE "validate"
    /\ UNCHANGED <<engine, request, handler>>

\* one iteration of "for ticker in tickers: error_info = validate_stock(...)"
ValidateStock ==
    /\ pc = "validate"
    /\ ticker_i < Len(tickers)
    /\ LET ticker == At(tickers, ticker_i)
           err    == validate_stock(market[ticker], start_date, end_date)
       IN  /\ fetch_log' = Append(fetch_log, [by |-> "validate_stock",
                                               ticker |-> ticker])
           /\ validation_errors' =
                 IF err = NoError THEN validation_errors
                 ELSE Append(validation_errors,
                             [ticker |-> ticker, error |-> err])
    /\ ticker_i' = ticker_i + 1
    /\ UNCHANGED <<engine, request, pc, stock_results, response>>

\* "if validation_errors: return jsonify({'validation_errors': True, ...})"
ReturnValidationErrors ==
    /\ pc = "validate"
    /\ ticker_i = Len(tickers)
    /\ validation_errors # <<>>
    /\ response' = ValidationResponse(validation_errors)
    /\ pc' = "responded"
    /\ UNCHANGED <<engine, request, ticker_i, validation_errors,
                   stock_results, fetch_log>>

ValidationPassed ==
    /\ pc = "validate"
    /\ ticker_i = Len(tickers)
    /\ validation_errors = <<>>
    /\ pc' = "analyze"
    /\ ticker_i' = 0
    /\ UNCHANGED <<engine, request, validation_errors, stock_results,
                   fetch_log, response>>

\* variant: a ticker that cannot be analysed ends the request with an error
AnalyzeStock_AbortOnFailure ==
    /\ pc = "analyze"
    /\ ticker_i < Len(tickers)
    /\ LET ticker == At(tickers, ticker_i)
           result == analyze_single_stock(ticker, market[ticker], short_window,
                                          long_window, use_rsi)
       IN  /\ fetch_log' = Append(fetch_log, [by |-> "analyze_single_stock",
                                               ticker |-> ticker])
           /\ IF result.ok
              THEN /\ stock_results' = Append(stock_results, result)
                   /\ UNCHANGED <<pc, response>>
              ELSE /\ response' = ErrorResponse("No valid data for " \o ticker)
                   /\ pc' = "responded"
                   /\ UNCHANGED stock_results
    /\ ticker_i' = ticker_i + 1
    /\ UNCHANGED <<engine, request, validation_errors>>

\* one iteration of "for ticker in tickers: result = analyze_single_stock(...);
\* if result: stock_results.append(result)"
AnalyzeStock ==
    /\ pc = "analyze"
    /\ ticker_i < Len(tickers)
    /\ LET ticker == At(tickers, ticker_i)
           result == analyze_single_stock(ticker, market[ticker], short_window,
                                          long_window, use_rsi)
       IN  /\ fetch_log' = Append(fetch_log, [by |-> "analyze_single_stock",
                                               ticker |-> ticker])
           /\ stock_results' =
                 IF result.ok THEN Append(stock_results, result)
                 ELSE stock_results
    /\ ticker_i' = ticker_i + 1
    /\ UNCHANGED <<engine, request, pc, validation_errors, response>>

\* "if not stock_results: return error 'No valid data for any of the tickers'"
NoValidData ==
    /\ pc = "analyze"
    /\ ticker_i = Len(tickers)
    /\ stock_results = <<>>
    /\ response' = ErrorResponse("No valid data for any of the tickers")
    /\ pc' = "responded"
    /\ UNCHANGED <<engine, request, ticker_i, validation_errors,
                   stock_results, fetch_log>>

\* the rest of the handler: weights, allocations, per-stock output, summed
\* curve, sort, totals, jsonify
Allocate ==
    /\ pc = "analyze"
    /\ ticker_i = Len(tickers)
    /\ stock_results # <<>>
    /\ response' = PortfolioResponse(stock_results, capital, smart_allocation)
    /\ pc' = "responded"
    /\ UNCHANGED <<engine, request, ticker_i, validation_errors,
                   stock_results, fetch_log>>

Next ==
    \/ GenerateSignalsNone
    \/ GenerateSignals
    \/ BacktestBar
    \/ BacktestFinish

NextLedger ==
    \/ BacktestBar
    \/ BacktestFinish

NextPortfolio ==
    \/ RejectRequest
    \/ AcceptRequest
    \/ ValidateStock
    \/ ReturnValidationErrors
    \/ ValidationPassed
    \/ AnalyzeStock
    \/ NoValidData
    \/ Allocate

Spec       == Init /\ [][Next]_vars
SpecLedger == InitLedger /\ [][NextLedger]_vars
SpecPortfolio == InitPortfolio /\ [][NextPortfolio]_vars

(***************************************************************************)
(* Vocabulary of the properties.                                           *)
(***************************************************************************)
\* generate_signals has returned a frame
HasFrame == pc \in {"run_backtest", "done"}

\* the rows run_backtest has processed so far
ProcessedBars == 0 .. (bar - 1)

Positive(r) == RGt(r, RZero)

\* the ledger as it stood when row t was reached
CashBefore(t)  == IF t = 0 THEN RInt(initial_capital) ELSE At(portfolio, t - 1).cash
UnitsBefore(t) ==
    IF t = 0 THEN RZero
    ELSE RDiv(At(portfolio, t - 1).holdings, RInt(At(data, t - 1)))

PositionChange(t) == At(signals.positions, t)

(***************************************************************************)
(* C1.  At every bar of the equity curve the recorded total equals the     *)
(* recorded cash plus the recorded holdings value, for any price series,   *)
(* any position_change sequence and any stop-loss setting.                 *)
(***************************************************************************)
C1_TotalIsCashPlusHoldings ==
    \A t \in ProcessedBars :
        At(portfolio, t).total =
            RAdd(At(portfolio, t).cash, At(portfolio, t).holdings)

\* a curve with a bar all in cash after a stop-loss exit and a bar all in
\* holdings
C1_Witness ==
    /\ \E t \in ProcessedBars : At(events, t) = "stop"
    /\ \E t \in ProcessedBars : Positive(At(portfolio, t).holdings)
    /\ \E t \in ProcessedBars : At(events, t) = "sell"

(***************************************************************************)
(* C2.  With initial_capital > 0 and positive prices the ledger is never   *)
(* both in cash and in a position after any bar: cash > 0 implies no       *)
(* units, units > 0 implies no cash, and neither is negative.              *)
(***************************************************************************)
C2_FlatOrLong ==
    /\ RLe(RZero, cash) /\ RLe(RZero, positions)
    /\ Positive(cash) => positions = RZero
    /\ Positive(positions) => cash = RZero
    /\ \A t \in ProcessedBars :
          ~(Positive(At(portfolio, t).cash) /\ Positive(At(portfolio, t).holdings))

\* the ledger is Long after a buy that followed an earlier exit
C2_Witness ==
    /\ Positive(positions)
    /\ cash = RZero
    /\ \E t \in ProcessedBars : At(events, t) \in {"sell", "stop"}
    /\ bar > 0 /\ At(events, bar - 1) = "buy"

(***************************************************************************)
(* C3.  As claimed: a stop-loss exit takes place only on bars whose        *)
(* position_change is 0, never on a bar whose position_change is +1 or -1. *)
(***************************************************************************)
C3_StopOnlyWithoutSignal ==
    \A t \in ProcessedBars :
        At(events, t) = "stop" => FEq(PositionChange(t), 0)

(***************************************************************************)
(* C3, amended.  A stop-loss exit never takes place on a -1 bar, nor on a  *)
(* +1 bar that finds the ledger Flat; besides the bars with no signal it   *)
(* takes place only on a +1 bar that finds the ledger already Long (the    *)
(* buy is skipped and the chain falls through to the stop-loss test).      *)
(***************************************************************************)
C3_StopOnlyWhenNoTradeExecutes ==
    \A t \in ProcessedBars :
        At(events, t) = "stop" =>
            /\ ~stop_loss_pct.none
            /\ Positive(UnitsBefore(t))
            /\ \/ FEq(PositionChange(t), 0)
               \/ FEq(PositionChange(t), 1) /\ CashBefore(t) = RZero

\* a stop-loss exit on a +1 bar
C3_Witness ==
    \E t \in ProcessedBars :
        At(events, t) = "stop" /\ FEq(PositionChange(t), 1)

(***************************************************************************)
(* The trade pairing as the specification words it: over the rows whose    *)
(* position_change is +1 or -1.                                            *)
(***************************************************************************)
SignalRows ==
    SelectSeq([p \in 1 .. Len(signals.positions) |-> p - 1],
              LAMBDA t : FEq(PositionChange(t), 1) \/ FEq(PositionChange(t), -1))

\* the +1 rows immediately followed, among the +1 / -1 rows, by a -1 row at
\* a higher price
WinningRoundTrips ==
    {j \in 1 .. (Len(SignalRows) - 1) :
        /\ FEq(PositionChange(SignalRows[j]), 1)
        /\ FEq(PositionChange(SignalRows[j + 1]), -1)
        /\ At(data, SignalRows[j + 1]) > At(data, SignalRows[j])}

(***************************************************************************)
(* C4.  As claimed: total_trades = floor(n / 2) with n the number of rows  *)
(* whose position_change is +1 or -1, and wins = the number of +1 rows     *)
(* immediately followed (among those rows) by a -1 row at a higher price,  *)
(* so that a trailing unmatched +1 changes neither.                        *)
(***************************************************************************)
C4_WinRateAccounting ==
    pc = "done" =>
        /\ results.total_trades = Len(SignalRows) \div 2
        /\ results.wins = Cardinality(WinningRoundTrips)
        /\ results.win_rate_pct =
               WinRate(Cardinality(WinningRoundTrips), Len(SignalRows) \div 2)

(***************************************************************************)
(* C5.  As claimed: the undefined first difference at the first row is     *)
(* treated as 0 by every consumer: the ledger makes no trade on the first  *)
(* row and the trade pairing does not count the first row.                 *)
(***************************************************************************)
C5_FirstRowTreatedAsZero ==
    /\ (HasFrame /\ bar > 0) => At(events, 0) = "none"
    /\ pc = "done" => \A j \in Idx(results.trades) : At(results.trades, j) # 0

(***************************************************************************)
(* C6.  As claimed: at every row at which long_window rows exist up to     *)
(* and including it, signal is 1 exactly when short_mavg > long_mavg; it   *)
(* is forced to 0 only before that.                                        *)
(***************************************************************************)
C6_SignalFromFullWindow ==
    HasFrame =>
        \A t \in Idx(data) :
            IF t + 1 >= long_window
            THEN At(signals.signal, t) =
                    (IF RGt(At(signals.short_mavg, t), At(signals.long_mavg, t))
                     THEN 1 ELSE 0)
            ELSE At(signals.signal, t) = 0

(***************************************************************************)
(* C6, amended.  At every row with 0-based index >= long_window (at least  *)
(* long_window + 1 rows up to and including it) signal is 1 exactly when   *)
(* short_mavg > long_mavg; it is forced to 0 at every row with index below *)
(* long_window, the row long_window - 1 that first fills the long window   *)
(* included.                                                               *)
(***************************************************************************)
C6_SignalFromIndexLongWindow ==
    HasFrame =>
        \A t \in Idx(data) :
            IF t >= long_window
            THEN At(signals.signal, t) =
                    (IF RGt(At(signals.short_mavg, t), At(signals.long_mavg, t))
                     THEN 1 ELSE 0)
            ELSE At(signals.signal, t) = 0

\* the row that first fills the long window has short_mavg above long_mavg
\* and signal 0, and a later row has signal 1
C6_Witness ==
    /\ HasFrame
    /\ Len(data) > long_window
    /\ RGt(At(signals.short_mavg, long_window - 1),
           At(signals.long_mavg, long_window - 1))
    /\ At(signals.signal, long_window - 1) = 0
    /\ \E t \in Idx(data) : At(signals.signal, t) = 1
    /\ \E t \in Idx(data) : t >= long_window /\ At(signals.signal, t) = 0

(***************************************************************************)
(* C7.  With use_rsi the final position_change is 0 wherever the raw       *)
(* difference of signal is +1 with rsi > rsi_overbought or -1 with         *)
(* rsi < rsi_oversold; at every other row, and at every row without        *)
(* use_rsi, it is the raw first difference of signal.                      *)
(***************************************************************************)
RawChange(t) == At(Diff(signals.signal), t)

Suppressed(t) ==
    \/ FEq(RawChange(t), 1) /\ FGt(At(signals.rsi, t), rsi_overbought)
    \/ FEq(RawChange(t), -1) /\ FLt(At(signals.rsi, t), rsi_oversold)

C7_RsiFilter ==
    HasFrame =>
        \A t \in Idx(data) :
            PositionChange(t) =
                (IF use_rsi /\ Suppressed(t) THEN F(0) ELSE RawChange(t))

\* an entry suppressed as overbought, and an exit that passes the filter
C7_Witness ==
    /\ HasFrame /\ use_rsi
    /\ \E t \in Idx(data) : FEq(RawChange(t), 1) /\ FEq(PositionChange(t), 0)
    /\ \E t \in Idx(data) : FEq(RawChange(t), -1) /\ FEq(PositionChange(t), -1)

\* an exit suppressed as oversold
C7_WitnessOversold ==
    /\ HasFrame /\ use_rsi
    /\ \E t \in Idx(data) : FEq(RawChange(t), -1) /\ FEq(PositionChange(t), 0)

(***************************************************************************)
(* The sums of the up moves and of the down moves in the RSI window that   *)
(* ends at row t (the first row has no move).                              *)
(***************************************************************************)
Move(t) == IF t = 0 THEN 0 ELSE At(data, t) - At(data, t - 1)

WindowFull(t) == t + 1 >= RSI_PERIOD

UpMoves(t) ==
    Cardinality({u \in (t - RSI_PERIOD + 1) .. t : Move(u) > 0})

DownMoves(t) ==
    Cardinality({u \in (t - RSI_PERIOD + 1) .. t : Move(u) < 0})

(***************************************************************************)
(* C8.  As claimed: whenever the average loss over the RSI period is zero  *)
(* rsi is the undefined value, and a +1 at such a row is not suppressed.   *)
(***************************************************************************)
C8_ZeroLossIsUndefined ==
    HasFrame =>
        \A t \in Idx(data) :
            (WindowFull(t) /\ DownMoves(t) = 0) =>
                /\ IsNaN(At(signals.rsi, t))
                /\ FEq(RawChange(t), 1) => FEq(PositionChange(t), 1)

(***************************************************************************)
(* C8, amended.  Whenever the average loss over the RSI period is zero     *)
(* calculate_rsi does not fail; rsi is undefined only if the average gain  *)
(* is zero as well, and a +1 at such a row is not suppressed; if the       *)
(* average gain is positive rsi is 100, and with use_rsi a +1 at such a    *)
(* row is suppressed exactly when rsi_overbought < 100.                    *)
(***************************************************************************)
C8_ZeroLossIsUndefinedOr100 ==
    HasFrame =>
        \A t \in Idx(data) :
            (WindowFull(t) /\ DownMoves(t) = 0) =>
                IF UpMoves(t) = 0
                THEN /\ IsNaN(At(signals.rsi, t))
                     /\ FEq(RawChange(t), 1) => FEq(PositionChange(t), 1)
                ELSE /\ At(signals.rsi, t) = F(100)
                     /\ FEq(RawChange(t), 1) =>
                           IF use_rsi /\ rsi_overbought < 100
                           THEN FEq(PositionChange(t), 0)
                           ELSE FEq(PositionChange(t), 1)

\* a +1 suppressed at a row with no down move in the window
C8_Witness ==
    /\ HasFrame /\ use_rsi
    /\ \E t \in Idx(data) :
          /\ WindowFull(t) /\ DownMoves(t) = 0 /\ UpMoves(t) > 0
          /\ FEq(RawChange(t), 1) /\ FEq(PositionChange(t), 0)

\* a +1 that passes at a row with no move at all in the window
C8_WitnessFlat ==
    /\ HasFrame /\ use_rsi
    /\ \E t \in Idx(data) :
          /\ WindowFull(t) /\ DownMoves(t) = 0 /\ UpMoves(t) = 0
          /\ FEq(RawChange(t), 1) /\ FEq(PositionChange(t), 1)

(***************************************************************************)
(* C9.  generate_signals returns None, computing no indicator, exactly     *)
(* when the series has fewer rows than long_window, whatever short_window, *)
(* use_rsi and the thresholds; otherwise it returns a frame.               *)
(***************************************************************************)
C9_InsufficientData ==
    /\ pc = "insufficient_data" =>
          Len(data) < long_window /\ signals = EmptyFrame /\ bar = 0
    /\ HasFrame =>
          /\ Len(data) >= long_window
          /\ Len(signals.positions) = Len(data)
          /\ Len(signals.short_mavg) = Len(data)
          /\ Len(signals.long_mavg) = Len(data)
          /\ Len(signals.rsi) = Len(data)
    /\ pc \in {"generate_signals", "insufficient_data", "run_backtest", "done"}

\* one row short of long_window, with the RSI filter off
C9_Witness ==
    /\ pc = "insufficient_data"
    /\ Len(data) = long_window - 1
    /\ ~use_rsi

\* exactly long_window rows: accepted
C9_WitnessAccepted ==
    /\ pc = "run_backtest"
    /\ Len(data) = long_window

(***************************************************************************)
(* C10.  As claimed: a configuration with long_window < short_window is    *)
(* rejected before any computation: no moving average, signal or back-test *)
(* is computed for it.                                                     *)
(***************************************************************************)
C10_LongBelowShortRejected ==
    long_window < short_window =>
        /\ signals = EmptyFrame
        /\ bar = 0
        /\ pc \in {"generate_signals", "insufficient_data"}

(***************************************************************************)
(* C11.  A portfolio request with an empty ticker list, a capital that is  *)
(* not positive, or an end_date not after start_date is answered with an   *)
(* error response before any ticker is validated, fetched or analysed: no  *)
(* fetch is ever made for it, no validation or analysis result is          *)
(* collected, and the only response it gets is the error with status 400   *)
(* (no weights, allocations or stocks).                                    *)
(***************************************************************************)
C11_InvalidRequestRejectedFirst ==
    (tickers = <<>> \/ capital <= 0 \/ end_date <= start_date) =>
        /\ pc \in {"request", "responded"}
        /\ fetch_log = <<>>
        /\ validation_errors = <<>>
        /\ stock_results = <<>>
        /\ pc = "request" => response = NoResponse
        /\ pc = "responded" =>
              /\ response.kind = "error"
              /\ response.status = 400
              /\ response.stocks = <<>>
              /\ response.allocations = <<>>
              /\ response.weights = <<>>

\* a request with tickers, a valid range and a capital of zero, rejected
C11_Witness ==
    /\ pc = "responded"
    /\ tickers # <<>>
    /\ capital <= 0
    /\ end_date > start_date
    /\ response.error = "Capital must be positive"

\* two tickers that the price service can serve, the range reversed
C11_WitnessDates ==
    /\ pc = "responded"
    /\ Len(tickers) = 2
    /\ \A p \in 1 .. 2 : market[tickers[p]].kind = "frame"
    /\ capital > 0
    /\ end_date < start_date
    /\ response.error = "End date must be after start date"

(***************************************************************************)
(* Vocabulary of the portfolio properties.                                 *)
(***************************************************************************)
ValidRequest == tickers # <<>> /\ capital > 0 /\ end_date > start_date

\* the positions of the request's ticker list
TickerPositions == 1 .. Len(tickers)

\* the price service serves a non-empty history for the ticker
FetchSucceeds(t) == market[t].kind = "frame" /\ market[t].index # <<>>

\* fetch and signal generation both succeed for the ticker
Succeeds(t) == FetchSucceeds(t) /\ Len(market[t].index) >= long_window

\* the history misses more than five days at either end of the range
PartialData(t) ==
    /\ FetchSucceeds(t)
    /\ \/ market[t].index[1] - start_date > 5
       \/ end_date - market[t].index[Len(market[t].index)] > 5

\* validation reports the ticker
Flagged(t) == ~FetchSucceeds(t) \/ PartialData(t)

\* the analysis loop runs, or has run, for this request
AnalysisRuns ==
    ValidRequest /\ (skip_validation \/ \A p \in TickerPositions : ~Flagged(tickers[p]))

\* the positions of the ticker list whose ticker succeeds, in list order
SucceedingPositions ==
    SelectSeq([p \in TickerPositions |-> p], LAMBDA p : Succeeds(tickers[p]))

\* how many entries of the response's stocks carry ticker t
Reported(t) ==
    Cardinality({q \in 1 .. Len(response.stocks) : response.stocks[q].ticker = t})

\* how many times ticker t is requested and succeeds
Requested(t) ==
    Cardinality({p \in TickerPositions : tickers[p] = t /\ Succeeds(t)})

C12_WitnessSignals ==
    /\ pc = "responded"
    /\ ~skip_validation
    /\ \E p, q \in TickerPositions :
          /\ FetchSucceeds(tickers[p]) /\ ~Succeeds(tickers[p])
          /\ Succeeds(tickers[q])
          /\ Reported(tickers[q]) = 1
    /\ response.kind = "result"

\* validation on: one ticker cannot be fetched and nothing is allocated
C12_WitnessValidation ==
    /\ pc = "responded"
    /\ ValidRequest
    /\ \E p, q \in TickerPositions :
          market[tickers[p]].kind = "error" /\ Succeeds(tickers[q])
    /\ response.kind = "validation"
    /\ ~response.can_continue

(***************************************************************************)
(* C13.  When the analysis phase of a portfolio request runs and no ticker *)
(* succeeds, the response is the terminal error (status 400) and no        *)
(* weights, allocations or aggregate exist; when at least one ticker       *)
(* succeeds, the weights, the allocations, the reported stocks and the     *)
(* aggregate dates are computed over exactly the succeeding tickers.       *)
(***************************************************************************)
C13_AggregateOverSucceedingTickers ==
    (pc = "responded" /\ AnalysisRuns) =>
        /\ fetch_log # <<>>
        /\ SucceedingPositions = <<>> =>
              /\ response = ErrorResponse("No valid data for any of the tickers")
              /\ response.status = 400
              /\ response.weights = <<>>
              /\ response.allocations = <<>>
              /\ response.portfolio_values = <<>>
              /\ response.stocks = <<>>
        /\ SucceedingPositions # <<>> =>
              /\ response.kind = "result"
              /\ [p \in 1 .. Len(stock_results) |-> stock_results[p].ticker]
                    = [p \in 1 .. Len(SucceedingPositions) |->
                          tickers[SucceedingPositions[p]]]
              /\ Len(response.weights) = Len(SucceedingPositions)
              /\ Len(response.allocations) = Len(SucceedingPositions)
              /\ Len(response.stocks) = Len(SucceedingPositions)
              /\ {response.dates[j] : j \in 1 .. Len(response.dates)}
                    = UNION {{market[tickers[p]].index[q] :
                                 q \in 1 .. Len(market[tickers[p]].index)} :
                             p \in {SucceedingPositions[r] :
                                       r \in 1 .. Len(SucceedingPositions)}}

\* two different tickers analysed, neither succeeds
C13_Witness ==
    /\ pc = "responded"
    /\ AnalysisRuns
    /\ Len(tickers) = 2
    /\ tickers[1] # tickers[2]
    /\ SucceedingPositions = <<>>
    /\ Len(fetch_log) >= 2
    /\ response.kind = "error"

\* a one-bar history fails beside a history that does not hold its date
C13_WitnessSome ==
    /\ pc = "responded"
    /\ AnalysisRuns
    /\ Len(tickers) = 2
    /\ Len(SucceedingPositions) = 1
    /\ \E p \in TickerPositions :
          /\ market[tickers[p]].index = <<4>>
          /\ \A j \in 1 .. Len(response.dates) : response.dates[j] # 4
    /\ response.kind = "result"

(***************************************************************************)
(* C14.  In every allocation result, in smart mode and in equal mode and   *)
(* for any number N >= 1 of succeeding tickers, the weights sum to 1 and   *)
(* the allocated capitals (the handler's allocations and the allocation    *)
(* field of the reported stocks alike) sum to total_capital.               *)
(***************************************************************************)
C14_WeightsSumToOne ==
    (pc = "responded" /\ response.kind = "result") =>
        /\ Len(response.weights) >= 1
        /\ RSum(response.weights) = RInt(1)
        /\ RSum(response.allocations) = RInt(capital)
        /\ RSum([q \in 1 .. Len(response.stocks) |->
                    response.stocks[q].allocation]) = RInt(capital)
        /\ response.total_capital = RInt(capital)

\* smart mode, two stocks, one with an undefined Sharpe ratio and one with 2
C14_Witness ==
    /\ pc = "responded"
    /\ response.kind = "result"
    /\ smart_allocation
    /\ Len(stock_results) = 2
    /\ \E p, q \in TickerPositions :
          /\ Succeeds(tickers[p]) /\ IsNaN(market[tickers[p]].sharpe)
          /\ Succeeds(tickers[q]) /\ market[tickers[q]].sharpe = F(2)
    /\ response.weights[1] # response.weights[2]

\* equal mode, two stocks
C14_WitnessEqual ==
    /\ pc = "responded"
    /\ response.kind = "result"
    /\ ~smart_allocation
    /\ Len(stock_results) = 2

\* the Sharpe ratio of the p-th succeeding stock as the backtest returned
\* it, and the number its smart weight is proportional to
RawSharpe(p) == market[stock_results[p].ticker].sharpe

FlooredSharpe(p) ==
    IF IsNum(RawSharpe(p)) /\ RGt(RatOf(RawSharpe(p)), Rat(1, 100))
    THEN RatOf(RawSharpe(p))
    ELSE Rat(1, 100)

(***************************************************************************)
(* C15.  In smart mode the weight of each succeeding ticker is its floored *)
(* Sharpe ratio max(sharpe, 0.01) divided by the sum of the floored Sharpe *)
(* ratios of all succeeding tickers: it is strictly positive also when the *)
(* Sharpe ratio is negative, zero or undefined, and two weights are in the *)
(* ratio of the floored Sharpe ratios.  In equal mode every weight is      *)
(* exactly 1/N.                                                            *)
(***************************************************************************)
C15_SmartWeightIsFlooredSharpeShare ==
    (pc = "responded" /\ response.kind = "result") =>
        LET N == Len(stock_results)
            total_floored == RSum([p \in 1 .. N |-> FlooredSharpe(p)])
        IN  /\ Len(response.weights) = N
            /\ smart_allocation =>
                  \A p \in 1 .. N :
                      /\ response.weights[p] = RDiv(FlooredSharpe(p), total_floored)
                      /\ RGt(response.weights[p], RZero)
                      /\ \A q \in 1 .. N :
                            RMul(response.weights[p], FlooredSharpe(q))
                               = RMul(response.weights[q], FlooredSharpe(p))
            /\ ~smart_allocation =>
                  \A p \in 1 .. N : response.weights[p] = Rat(1, N)

\* Sharpe ratios 2.0 and 0.5: weights 4/5 and 1/5
C15_Witness ==
    /\ pc = "responded"
    /\ response.kind = "result"
    /\ smart_allocation
    /\ Len(stock_results) = 2
    /\ RawSharpe(1) = F(2)
    /\ RawSharpe(2) = FR(Rat(1, 2))
    /\ response.weights = <<Rat(4, 5), Rat(1, 5)>>

\* an undefined and a negative Sharpe ratio: both floored, equal weights
C15_WitnessFloored ==
    /\ pc = "responded"
    /\ response.kind = "result"
    /\ smart_allocation
    /\ Len(stock_results) = 2
    /\ IsNaN(RawSharpe(1))
    /\ RawSharpe(2) = F(-1)
    /\ response.weights = <<Rat(1, 2), Rat(1, 2)>>

(***************************************************************************)
(* C16.  As claimed: the aggregate total_profit is the last value of the   *)
(* summed, date-unioned curve portfolio_values minus total_capital, and    *)
(* total_return_pct is total_profit / total_capital * 100, also when the   *)
(* tickers' series end on different dates.                                 *)
(***************************************************************************)
C16_TotalProfitFromSummedCurve ==
    (pc = "responded" /\ response.kind = "result") =>
        /\ response.total_profit =
              RSub(response.portfolio_values[Len(response.portfolio_values)],
                   RInt(capital))
        /\ response.total_return_pct =
              RMul(RDiv(response.total_profit, RInt(capital)), RInt(100))

\* the p-th succeeding stock has a bar on day d; its equity on that bar
\* under the notional capital
HasBar(p, d) ==
    \E q \in 1 .. Len(stock_results[p].dates) : stock_results[p].dates[q] = d

NotionalEquity(p, d) ==
    stock_results[p].portfolio_vals[
        CHOOSE q \in 1 .. Len(stock_results[p].dates) :
            stock_results[p].dates[q] = d]

TotalAt(t) == At(portfolio, t).total

(***************************************************************************)
(* C18.  For every equity curve with positive values, the max_drawdown_pct *)
(* that run_backtest reports (calculate_max_drawdown of the total column)  *)
(* is at most 0, and it is 0 exactly when total never decreases from one   *)
(* bar to the next.                                                        *)
(***************************************************************************)
C18_MaxDrawdownNonPositive ==
    (pc = "done" /\ \A t \in Idx(portfolio) : Positive(TotalAt(t))) =>
        /\ RLe(results.max_drawdown_pct, RZero)
        /\ results.max_drawdown_pct = RZero
              <=> \A t \in Idx(portfolio) :
                     t > 0 => RLe(TotalAt(t - 1), TotalAt(t))

\* a curve that rises above the starting capital and then falls
C18_Witness ==
    /\ pc = "done"
    /\ \E t \in Idx(portfolio) :
          /\ t > 0
          /\ RGt(TotalAt(t - 1), RInt(initial_capital))
          /\ RLt(TotalAt(t), TotalAt(t - 1))
    /\ RLt(results.max_drawdown_pct, RZero)

\* a curve that rises and never falls: drawdown 0
C18_WitnessRising ==
    /\ pc = "done"
    /\ RGt(TotalAt(Len(portfolio) - 1), RInt(initial_capital))
    /\ results.max_drawdown_pct = RZero

\* a completed round trip: a +1 row, then a -1 row, with no other +1 or -1
\* between them
RoundTrip(b, s) ==
    /\ b < s
    /\ FEq(PositionChange(b), 1)
    /\ FEq(PositionChange(s), -1)
    /\ \A t \in (b + 1) .. (s - 1) : FEq(PositionChange(t), 0)

(***************************************************************************)
(* C19.  For every position_change column the signal generator emits, with *)
(* the RSI filter or without it, win_rate_pct lies between 0 and 100 (the  *)
(* wins never exceed total_trades), and it is 0 whenever the column holds  *)
(* no completed +1 then -1 round trip.                                     *)
(***************************************************************************)
C19_WinRateWithinBounds ==
    pc = "done" =>
        /\ RLe(RZero, results.win_rate_pct)
        /\ RLe(results.win_rate_pct, RInt(100))
        /\ results.wins <= results.total_trades
        /\ (~ \E b, s \in Idx(data) : RoundTrip(b, s))
              => results.win_rate_pct = RZero

\* a winning round trip beside an unmatched entry: a rate strictly between
C19_Witness ==
    /\ pc = "done"
    /\ results.wins >= 1
    /\ results.total_trades > results.wins
    /\ RLt(RZero, results.win_rate_pct)
    /\ RLt(results.win_rate_pct, RInt(100))

\* an entry that is never closed: trades are counted, the rate is 0
C19_WitnessNoRoundTrip ==
    /\ pc = "done"
    /\ \E b \in Idx(data) : FEq(PositionChange(b), 1)
    /\ ~ \E b, s \in Idx(data) : RoundTrip(b, s)
    /\ results.total_trades >= 1
    /\ results.win_rate_pct = RZero

\* the RSI filter has removed a row of the column
C19_WitnessFiltered ==
    /\ pc = "done"
    /\ use_rsi
    /\ \E t \in Idx(data) : Suppressed(t)
    /\ results.total_trades >= 1

\* the column holds exactly one +1, at row b, and exactly one -1, at row s,
\* the +1 first
SingleRoundTrip(b, s) ==
    /\ b < s
    /\ \A t \in Idx(data) : FEq(PositionChange(t), 1) <=> t = b
    /\ \A t \in Idx(data) : FEq(PositionChange(t), -1) <=> t = s

(***************************************************************************)
(* C20.  For a signal series with exactly one +1 at bar b followed by      *)
(* exactly one -1 at bar s and no stop-loss, run_backtest buys with all    *)
(* the cash at price[b] and sells all the units at price[s] and trades on  *)
(* no other bar, total_return_pct is (price[s] / price[b] - 1) * 100, and  *)
(* win_rate_pct is 100 if price[s] > price[b] and 0 otherwise.             *)
(***************************************************************************)
C20_SingleRoundTrip ==
    \A b, s \in Idx(data) :
        (pc = "done" /\ stop_loss_pct.none /\ SingleRoundTrip(b, s)) =>
            LET buy_price  == RInt(At(data, b))
                sell_price == RInt(At(data, s))
                start_cash == RInt(initial_capital)
            IN  /\ \A t \in Idx(data) :
                      At(events, t) = IF t = b THEN "buy"
                                      ELSE IF t = s THEN "sell" ELSE "none"
                /\ At(portfolio, b).cash = RZero
                /\ At(portfolio, b).holdings = start_cash
                /\ At(portfolio, s).holdings = RZero
                /\ At(portfolio, s).cash
                      = RMul(RDiv(start_cash, buy_price), sell_price)
                /\ results.total_return_pct
                      = RMul(RSub(RDiv(sell_price, buy_price), RInt(1)), RInt(100))
                /\ results.win_rate_pct
                      = IF At(data, s) > At(data, b) THEN RInt(100) ELSE RZero

\* bought at 1 and sold at 2 on a frame whose first row is the NaN of diff()
C20_Witness ==
    /\ pc = "done"
    /\ stop_loss_pct.none
    /\ IsNaN(PositionChange(0))
    /\ \E b, s \in Idx(data) :
          /\ SingleRoundTrip(b, s)
          /\ At(data, b) = 1
          /\ At(data, s) = 2
    /\ results.total_return_pct = RInt(100)
    /\ results.win_rate_pct = RInt(100)

\* bought at 2 and sold at 1: a loss of 50 and a rate of 0
C20_WitnessLoss ==
    /\ pc = "done"
    /\ stop_loss_pct.none
    /\ \E b, s \in Idx(data) :
          /\ SingleRoundTrip(b, s)
          /\ At(data, b) = 2
          /\ At(data, s) = 1
    /\ results.total_return_pct = RInt(-50)
    /\ results.win_rate_pct = RZero

\* every bar of the series has the same price
ConstantPrice == \A t \in Idx(data) : At(data, t) = At(data, 0)

(***************************************************************************)
(* C21.  As claimed: a constant-price series of at least long_window bars  *)
(* produces a position_change that is 0 at every bar, so that the ledger   *)
(* never trades: total equals initial_capital at every bar and             *)
(* total_return_pct, max_drawdown_pct and win_rate_pct are all 0.          *)
(***************************************************************************)
C21_ConstantPriceNeverTrades ==
    (ConstantPrice /\ Len(data) >= long_window) =>
        /\ HasFrame => \A t \in Idx(data) : FEq(PositionChange(t), 0)
        /\ HasFrame => \A t \in ProcessedBars :
              /\ At(events, t) = "none"
              /\ TotalAt(t) = RInt(initial_capital)
        /\ pc = "done" =>
              /\ results.total_return_pct = RZero
              /\ results.max_drawdown_pct = RZero
              /\ results.win_rate_pct = RZero

\* the first k rows of a column
Prefix(col, k) == SubSeq(col, 1, k)

\* the row run_backtest records for bar t when it is given only the bars
\* 0 .. t of the prices and of position_change
RowFromPrefix(t) ==
    PortfolioRow(LedgerAfter(Prefix(data, t + 1),
                             Prefix(signals.positions, t + 1),
                             initial_capital, stop_loss_pct, t + 1),
                 At(data, t))

(***************************************************************************)
(* C22.  The ledger walk is a single pass without look-ahead: the cash,    *)
(* holdings and total recorded for each of the first k bars are those of a *)
(* run on the first k bars alone, so two inputs whose prices and           *)
(* position_change agree on the first k bars get identical records for     *)
(* those bars, whatever the later bars contain.                            *)
(***************************************************************************)
C22_NoLookAhead ==
    pc \in {"run_backtest", "done"} =>
        \A t \in ProcessedBars :
            /\ At(portfolio, t).cash = RowFromPrefix(t).cash
            /\ At(portfolio, t).holdings = RowFromPrefix(t).holdings
            /\ At(portfolio, t).total = RowFromPrefix(t).total

\* a finished run that buys, and sells on a later bar, after a first bar
\* without a trade
C22_Witness ==
    /\ pc = "done"
    /\ At(events, 0) = "none"
    /\ \E t, u \in Idx(data) :
          /\ t < u
          /\ At(events, t) = "buy"
          /\ At(events, u) \in {"sell", "stop"}
          /\ At(portfolio, u).total # At(portfolio, t).total

ProfitsNonIncreasing ==
    \A q \in 1 .. Len(response.stocks) - 1 :
        RLe(response.stocks[q + 1].profit, response.stocks[q].profit)

\* the profit of the p-th succeeding stock: its final equity rescaled to its
\* allocation, less the allocation
OwnProfit(p) ==
    RSub(RMul(stock_results[p].final_value,
              RDiv(response.allocations[p], RInt(10000))),
         response.allocations[p])

\* entry q of the response is the entry of the p-th succeeding stock
IsEntryOf(q, p) ==
    /\ response.stocks[q].ticker = stock_results[p].ticker
    /\ response.stocks[q].allocation = response.allocations[p]
    /\ response.stocks[q].allocation_pct = RMul(response.weights[p], RInt(100))
    /\ response.stocks[q].profit = OwnProfit(p)

(***************************************************************************)
(* C24.  As claimed: the per-ticker results of a portfolio request are     *)
(* ordered by profit, non-increasing, and hold each succeeding ticker's    *)
(* entry exactly once, with its own allocation, weight and profit.         *)
(***************************************************************************)
C24_SortedEachTickerOnce ==
    (pc = "responded" /\ response.kind = "result") =>
        /\ ProfitsNonIncreasing
        /\ \A p \in 1 .. Len(stock_results) :
              /\ Reported(stock_results[p].ticker) = 1
              /\ \E q \in 1 .. Len(response.stocks) : IsEntryOf(q, p)

(***************************************************************************)
(* C24, amended.  The per-ticker results are ordered by profit,            *)
(* non-increasing, and hold exactly one entry for every succeeding         *)
(* occurrence of a ticker in the request's list, each with its own         *)
(* allocation, weight and profit: a ticker the request names twice is      *)
(* analysed, weighted and reported twice.                                  *)
(***************************************************************************)
C24_SortedOneEntryPerOccurrence ==
    (pc = "responded" /\ response.kind = "result") =>
        LET N == Len(stock_results)
        IN  /\ ProfitsNonIncreasing
            /\ Len(response.stocks) = N
            /\ \E perm \in [1 .. N -> 1 .. N] :
                  /\ \A p, r \in 1 .. N : perm[p] = perm[r] => p = r
                  /\ \A p \in 1 .. N : IsEntryOf(perm[p], p)
            /\ \A t \in TickerNames : Reported(t) = Requested(t)

\* two stocks with different profits; the later one of the request comes
\* first in the response
C24_Witness ==
    /\ pc = "responded"
    /\ response.kind = "result"
    /\ Len(stock_results) = 2
    /\ stock_results[1].ticker # stock_results[2].ticker
    /\ RLt(OwnProfit(1), OwnProfit(2))
    /\ response.stocks[1].ticker = stock_results[2].ticker

\* one ticker named twice: two entries
C24_WitnessTwice ==
    /\ pc = "responded"
    /\ response.kind = "result"
    /\ Len(tickers) = 2
    /\ tickers[1] = tickers[2]
    /\ Len(response.stocks) = 2

\* the ledger holds units when bar t is reached
LongBefore(t) == Positive(UnitsBefore(t))

\* position_change at bar t is neither +1 nor -1
NoSignal(t) == ~FEq(PositionChange(t), 1) /\ ~FEq(PositionChange(t), -1)

\* the price of the latest buy before bar t
EntryPrice(t) ==
    LET buys == {u \in 0 .. (t - 1) : At(events, u) = "buy"}
    IN  RInt(At(data, CHOOSE u \in buys : \A v \in buys : v <= u))

\* the price of bar t is strictly below entry_price * (1 - stop_loss_pct)
BelowStop(t) ==
    RLt(RInt(At(data, t)),
        RMul(EntryPrice(t), RSub(RInt(1), stop_loss_pct.pct)))

(***************************************************************************)
(* C25.  When stop_loss_pct is configured and the ledger is Long, a bar    *)
(* without a strategy signal whose price is strictly below                 *)
(* entry_price * (1 - stop_loss_pct) sells all units at that bar's price   *)
(* and leaves the ledger Flat; when the price is at or above the           *)
(* threshold, or no stop_loss_pct is configured, a bar without a signal    *)
(* never causes an exit.                                                   *)
(***************************************************************************)
C25_StopLossExit ==
    pc \in {"run_backtest", "done"} =>
        \A t \in ProcessedBars :
            (LongBefore(t) /\ NoSignal(t)) =>
                IF ~stop_loss_pct.none /\ BelowStop(t)
                THEN /\ At(events, t) = "stop"
                     /\ At(portfolio, t).holdings = RZero
                     /\ At(portfolio, t).cash
                           = RAdd(CashBefore(t),
                                  RMul(UnitsBefore(t), RInt(At(data, t))))
                ELSE /\ At(events, t) = "none"
                     /\ At(portfolio, t).cash = CashBefore(t)
                     /\ At(portfolio, t).holdings
                           = RMul(UnitsBefore(t), RInt(At(data, t)))

\* a forced exit on a bar without a signal
C25_Witness ==
    /\ pc = "done"
    /\ ~stop_loss_pct.none
    /\ \E t \in Idx(data) :
          /\ LongBefore(t) /\ NoSignal(t) /\ BelowStop(t)
          /\ At(events, t) = "stop"

\* a price that has fallen exactly to the threshold: no exit
C25_WitnessAtThreshold ==
    /\ pc = "done"
    /\ ~stop_loss_pct.none
    /\ \E t \in Idx(data) :
          /\ LongBefore(t) /\ NoSignal(t)
          /\ RInt(At(data, t)) = RMul(EntryPrice(t), RSub(RInt(1), stop_loss_pct.pct))
          /\ At(events, t) = "none"

\* the entry price the ledger carries when bar t is reached: the price of
\* the latest buy while Long, 0.0 while Flat
EntryBefore(t) == IF LongBefore(t) THEN EntryPrice(t) ELSE RZero

\* the units the ledger holds after bar t
UnitsAfter(t) == RDiv(At(portfolio, t).holdings, RInt(At(data, t)))

\* bar t leaves cash and units as they were and revalues the holdings; the
\* bar processed last also leaves the entry price as it was
LedgerUntouched(t) ==
    /\ At(portfolio, t).cash = CashBefore(t)
    /\ UnitsAfter(t) = UnitsBefore(t)
    /\ At(portfolio, t).holdings = RMul(UnitsBefore(t), RInt(At(data, t)))
    /\ t = bar - 1 =>
          /\ cash = CashBefore(t)
          /\ positions = UnitsBefore(t)
          /\ last_buy_price = EntryBefore(t)

(***************************************************************************)
(* C26.  As claimed: on a bar that triggers no trade (position_change 0    *)
(* with no stop-loss exit, a +1 while already Long, or a -1 while already  *)
(* Flat) run_backtest leaves cash, units and entry price unchanged and     *)
(* only revalues holdings to units times the bar's price.                  *)
(***************************************************************************)
C26_NoTradeBarsLeaveLedger ==
    pc \in {"run_backtest", "done"} =>
        \A t \in ProcessedBars :
            (\/ NoSignal(t) /\ At(events, t) # "stop"
             \/ FEq(PositionChange(t), 1) /\ LongBefore(t)
             \/ FEq(PositionChange(t), -1) /\ ~LongBefore(t))
                => LedgerUntouched(t)

(***************************************************************************)
(* C26, amended.  On a bar on which no branch of the chain sells or buys   *)
(* (position_change 0 or undefined with no stop-loss exit, a +1 while      *)
(* already Long with no stop-loss exit, or a -1 while already Flat) cash,  *)
(* units and entry price are unchanged and only holdings is revalued to    *)
(* units times the bar's price; a +1 while already Long is tested against  *)
(* the stop-loss like a bar without a signal and can sell.                 *)
(***************************************************************************)
C26_BarsWithoutTradeLeaveLedger ==
    pc \in {"run_backtest", "done"} =>
        \A t \in ProcessedBars :
            /\ (\/ NoSignal(t) /\ At(events, t) # "stop"
                \/ FEq(PositionChange(t), 1) /\ LongBefore(t)
                      /\ At(events, t) # "stop"
                \/ FEq(PositionChange(t), -1) /\ ~LongBefore(t))
                   => /\ At(events, t) = "none"
                      /\ LedgerUntouched(t)
            /\ (FEq(PositionChange(t), 1) /\ LongBefore(t)
                   /\ ~stop_loss_pct.none /\ BelowStop(t))
                   => At(events, t) = "stop"

\* a +1 while Long and a -1 while Flat in one run, neither trading, with
\* the holdings revalued at a new price
C26_Witness ==
    /\ pc = "done"
    /\ \E t, u \in Idx(data) :
          /\ FEq(PositionChange(t), 1) /\ LongBefore(t)
          /\ At(events, t) = "none"
          /\ At(portfolio, t).holdings # At(portfolio, t - 1).holdings
          /\ FEq(PositionChange(u), -1) /\ ~LongBefore(u)
          /\ At(events, u) = "none"

\* a +1 while Long that is stopped out
C26_WitnessStopped ==
    /\ pc = "done"
    /\ \E t \in Idx(data) :
          /\ FEq(PositionChange(t), 1) /\ LongBefore(t)
          /\ At(events, t) = "stop"

\* entries j and j + 1 of trades are a +1 and a -1: the pair the win-rate
\* loop compares the prices of
PairedAt(j) ==
    /\ j + 1 < Len(results.trades)
    /\ FEq(PositionChange(At(results.trades, j)), 1)
    /\ FEq(PositionChange(At(results.trades, j + 1)), -1)

(***************************************************************************)
(* C27.  As claimed: every (+1, -1) pair that the win-rate accounting      *)
(* treats as a completed round trip is a round trip of the ledger: the     *)
(* ledger bought at the pair's +1 bar, held until the pair's -1 bar and    *)
(* sold there, for every signal sequence, RSI-suppressed events and        *)
(* stop-loss exits included.                                               *)
(***************************************************************************)
C27_PairsAreLedgerRoundTrips ==
    pc = "done" =>
        \A j \in Idx(results.trades) :
            PairedAt(j) =>
                LET b == At(results.trades, j)
                    s == At(results.trades, j + 1)
                IN  /\ At(events, b) = "buy"
                    /\ At(events, s) = "sell"
                    /\ \A t \in (b + 1) .. (s - 1) : At(events, t) = "none"


\* the +1 / -1 rows take the values +1, -1, +1, ... in row order
EventsAlternate ==
    LET rows == SignalRows
    IN  \A j \in 1 .. Len(rows) :
            FEq(PositionChange(rows[j]), IF j % 2 = 1 THEN 1 ELSE -1)

(***************************************************************************)
(* C28.  With the RSI filter off, the +1 / -1 position_change events of    *)
(* the frame generate_signals returns alternate strictly +1, -1, +1, ...   *)
(* starting with +1; with the stop-loss off as well, every +1 row finds    *)
(* the ledger Flat and is bought, and every -1 row finds it Long and is    *)
(* sold: every emitted signal is executed.                                 *)
(***************************************************************************)
C28_SignalsAlternateAndExecute ==
    (HasFrame /\ ~use_rsi) =>
        /\ EventsAlternate
        /\ stop_loss_pct.none =>
               \A t \in ProcessedBars :
                   /\ FEq(PositionChange(t), 1) =>
                          ~LongBefore(t) /\ At(events, t) = "buy"
                   /\ FEq(PositionChange(t), -1) =>
                          LongBefore(t) /\ At(events, t) = "sell"

\* a finished run without filter and stop-loss that bought, sold and bought
\* again
C28_Witness ==
    /\ pc = "done"
    /\ ~use_rsi
    /\ stop_loss_pct.none
    /\ Len(SignalRows) >= 3
    /\ At(events, SignalRows[3]) = "buy"


\* the series holds exactly long_window bars
ExactlyLongWindow == Len(data) = long_window

(***************************************************************************)
(* C29.  No row with 0-based index below long_window carries a +1 or a -1  *)
(* position_change.  A series of exactly long_window bars is therefore     *)
(* accepted by generate_signals, never trades, and run_backtest ends with  *)
(* a total value equal to initial_capital.                                 *)
(***************************************************************************)
C29_WarmUpRowsNeverTrade ==
    /\ HasFrame => \A t \in Idx(data) : t < long_window => NoSignal(t)
    /\ ExactlyLongWindow =>
           /\ pc # "insufficient_data"
           /\ \A t \in ProcessedBars :
                  /\ At(events, t) = "none"
                  /\ TotalAt(t) = RInt(initial_capital)
           /\ pc = "done" => results.total_return_pct = RZero

\* a finished run on a series of exactly long_window bars whose prices moved
C29_Witness ==
    /\ pc = "done"
    /\ ExactlyLongWindow
    /\ At(data, 0) # At(data, Len(data) - 1)
    /\ TotalAt(Len(data) - 1) = RInt(initial_capital)


\* total[t - 1] carried to bar t: scaled by price[t] / price[t - 1] when the
\* ledger was Long after bar t - 1, unchanged when it was Flat
CarriedTotal(t) ==
    IF LongBefore(t)
    THEN RDiv(RMul(TotalAt(t - 1), RInt(At(data, t))), RInt(At(data, t - 1)))
    ELSE TotalAt(t - 1)

(***************************************************************************)
(* C30.  Trades conserve value: at every bar t > 0 the total equals the    *)
(* total of bar t - 1 when the ledger was Flat after bar t - 1, and the    *)
(* total of bar t - 1 times price[t] / price[t - 1] when it was Long,      *)
(* whether or not a buy, a sell or a stop-loss exit executes at bar t.     *)
(***************************************************************************)
C30_TradesConserveValue ==
    \A t \in ProcessedBars : t > 0 => TotalAt(t) = CarriedTotal(t)

\* a run that bought at a bar after the first, sold on a -1 and was stopped
\* out, the two exits at prices other than the bar before
C30_Witness ==
    /\ \E t \in ProcessedBars : t > 0 /\ At(events, t) = "buy"
    /\ \E t \in ProcessedBars :
           At(events, t) = "sell" /\ At(data, t) # At(data, t - 1)
    /\ \E t \in ProcessedBars :
           At(events, t) = "stop" /\ At(data, t) # At(data, t - 1)

====
